---- MODULE Spec2Model ----
(***************************************************************************)
(* Model of appnlib/core/graph.py: the schema-driven translation between   *)
(* structured records and an rdflib graph (from_struct, sub_graph,         *)
(* to_builtin, to_struct and their helpers).                               *)
(***************************************************************************)
EXTENDS Naturals, Sequences, FiniteSets, TLC

VARIABLES graph, last, enc

vars == <<graph, last, enc>>

(***************************************************************************)
(* Bounds of the model.                                                    *)
(***************************************************************************)
\* longest collection a record field holds
MaxLen == 2
\* most triples a shared graph is grown to
MaxTriples == 5

(***************************************************************************)
(* Values.                                                                 *)
(***************************************************************************)
\* the scalar texts of the model: record identifiers and field values
Atoms == {"a", "b"}

\* Python's None, as an identifier attribute value
None == "None"

\* no identifier argument (None, or the empty text: both are falsy)
NoIdent == ""

\* a field value: None, a text (always one scalar), or a sized collection
NoneVal == [k |-> "none", items |-> <<>>]

Text(s) == [k |-> "text", items |-> <<s>>]

Coll(q) == [k |-> "coll", items |-> q]

SeqsUpTo(S, n) == UNION {[1..m -> S] : m \in 0..n}

\* rdflib terms: URIRef(value) and Literal(value, datatype)
URIRef(s) == [kind |-> "ref", val |-> s, dt |-> ""]

Literal(s, datatype) == [kind |-> "lit", val |-> s, dt |-> datatype]

\* str(term)
StrOf(term) == term.val

\* appnlib.core.utils.make_ref on a text identifier
make_ref(identifier) == URIRef(identifier)

Nodes == {URIRef(a) : a \in Atoms}

RDFtype == "rdf:type"

IDRef == "IDRef"

(***************************************************************************)
(* Schemas (appnlib.core.schema.Schema): __rdf_resource__, name_mapping    *)
(* (declaration order in names, FieldInfo in attrs) and ref_mapping.       *)
(***************************************************************************)
NoSchema == "none"

SchemaNames == {"Person", "Org"}

FieldNames == {"name", "friends"}

Schemas ==
  [Person |->
     [resource |-> "ex:Person",
      names |-> <<"name", "friends">>,
      attrs |-> [name |-> [ref |-> "ex:name", range |-> "xsd:string", repeat |-> FALSE],
                 friends |-> [ref |-> "ex:knows", range |-> IDRef, repeat |-> TRUE]]],
   Org |->
     [resource |-> "ex:Org",
      names |-> <<"name">>,
      attrs |-> [name |-> [ref |-> "ex:label", range |-> "xsd:token", repeat |-> FALSE]]]]

rdf_resource(schema) == URIRef(Schemas[schema].resource)

SchemaFields(schema) == {Schemas[schema].names[i] : i \in DOMAIN Schemas[schema].names}

\* schema.ref_mapping: predicate -> field name, defined on the schema's predicates only
ref_mapping(schema) ==
  [p \in {Schemas[schema].attrs[n].ref : n \in SchemaFields(schema)} |->
     CHOOSE n \in SchemaFields(schema) : Schemas[schema].attrs[n].ref = p]

(***************************************************************************)
(* The rdflib graph, as its memory store indexes it: per subject, the      *)
(* (predicate, object) pairs in insertion order, each pair once.           *)
(***************************************************************************)
EmptyGraph == [s \in Nodes |-> <<>>]

\* the graph argument left out (graph=None)
NoGraph == <<>>

\* (s, p, o) in graph
Contains(g, s, p, o) == \E i \in DOMAIN g[s] : g[s][i] = <<p, o>>

\* (identifier, None, None) in graph
HasSubject(g, s) == s \in DOMAIN g /\ Len(g[s]) > 0

\* graph.add((s, p, o)): storing a triple the graph holds changes nothing
GraphAdd(g, s, p, o) ==
  IF Contains(g, s, p, o) THEN g ELSE [g EXCEPT ![s] = Append(@, <<p, o>>)]

\* the graph as its set of triples
Triples(g) == UNION {{<<s, g[s][i][1], g[s][i][2]>> : i \in DOMAIN g[s]} : s \in DOMAIN g}

RECURSIVE PredOrder(_)
\* the predicates of a subject's pairs, in the order each was first stored
PredOrder(pairs) ==
  IF pairs = <<>> THEN <<>>
  ELSE LET init == PredOrder(SubSeq(pairs, 1, Len(pairs) - 1))
           p == pairs[Len(pairs)][1]
       IN IF \E i \in DOMAIN init : init[i] = p THEN init ELSE Append(init, p)

RECURSIVE GroupBy(_, _)
GroupBy(pairs, preds) ==
  IF preds = <<>> THEN <<>>
  ELSE SelectSeq(pairs, LAMBDA e : e[1] = Head(preds)) \o GroupBy(pairs, Tail(preds))

\* graph.predicate_objects(subject, unique=True): predicate by predicate, each
\* predicate's objects in insertion order
PredicateObjects(g, s) == GroupBy(g[s], PredOrder(g[s]))

\* a lookup that leaves the object of the type triple open
SubjectsOfAnyType(g, schema) ==
  {s \in DOMAIN g : \E i \in DOMAIN g[s] : g[s][i][1] = RDFtype}

\* graph.subjects(predicate=RDF.type, object=resource); resource None matches any
SubjectsOfType(g, schema) ==
  {s \in DOMAIN g : \E i \in DOMAIN g[s] :
      /\ g[s][i][1] = RDFtype
      /\ (schema = NoSchema \/ g[s][i][2] = rdf_resource(schema))}

(***************************************************************************)
(* Record instances: the two identifier attributes (None when not          *)
(* exposed), the record's own __schema__ (NoSchema when it has none) and   *)
(* the fields it exposes.                                                  *)
(***************************************************************************)
Struct(ID, id, own, fields) == [ID |-> ID, id |-> id, own |-> own, fields |-> fields]

\* get_key_or_attribute(name, struct): the value, None when not exposed
get_key_or_attribute(name, struct) ==
  IF name = "ID" THEN struct.ID ELSE IF name = "id" THEN struct.id ELSE None

\* get_key_or_attribute(name, struct, raise_error_if_missing=True) raises
MissingField(name, struct) == name \notin DOMAIN struct.fields

\* validate_schema(struct, schema) passes: every declared field is exposed
validate_schema(struct, schema) ==
  \A n \in SchemaFields(schema) : ~MissingField(n, struct)

(***************************************************************************)
(* Value emitter.                                                          *)
(***************************************************************************)
\* an emitter that stores every scalar as a literal
AddScalarLiteral(g, about, item, info) ==
  GraphAdd(g, about, info.ref, Literal(item, info.range))

\* the scalar branch: describer.rel for an IDRef range, describer.value otherwise
AddScalar(g, about, item, info) ==
  IF info.range = IDRef
  THEN GraphAdd(g, about, info.ref, URIRef(item))
  ELSE GraphAdd(g, about, info.ref, Literal(item, info.range))

RECURSIVE AddItems(_, _, _, _)
\* the collection branch: one recursive call per item, in order
AddItems(g, about, items, info) ==
  IF items = <<>> THEN g
  ELSE AddItems(AddScalar(g, about, Head(items), info), about, Tail(items), info)

\* an emitter that walks a collection from its last item to its first
describer_add_reversed(g, about, value, info) ==
  IF value.k = "none" THEN g
  ELSE AddItems(g, about, [i \in 1..Len(value.items) |->
                             value.items[Len(value.items) + 1 - i]], info)

describer_add_value(g, about, value, info) ==
  IF value.k = "none" THEN g
  ELSE IF value.k = "coll" THEN AddItems(g, about, value.items, info)
  ELSE AddScalar(g, about, value.items[1], info)

(***************************************************************************)
(* Encoder.                                                                *)
(***************************************************************************)
Ok == "ok"

RECURSIVE EmitFields(_, _, _, _, _)
\* the loop over schema.name_mapping, from the i-th declared field on
EmitFields(g, about, struct, schema, i) ==
  IF i > Len(Schemas[schema].names) THEN [err |-> Ok, graph |-> g]
  ELSE LET name == Schemas[schema].names[i] IN
       IF MissingField(name, struct)
       THEN [err |-> "AttributeError: missing field", graph |-> g]
       ELSE EmitFields(describer_add_value(g, about, struct.fields[name],
                                           Schemas[schema].attrs[name]),
                       about, struct, schema, i + 1)

\* an extraction that tries "id" first
instance_id_fallback_first(struct) ==
  IF get_key_or_attribute("id", struct) # None THEN get_key_or_attribute("id", struct)
  ELSE IF get_key_or_attribute("ID", struct) # None THEN get_key_or_attribute("ID", struct)
  ELSE None

\* the identifier extraction: "ID" first, then "id"
instance_id(struct) ==
  IF get_key_or_attribute("ID", struct) # None THEN get_key_or_attribute("ID", struct)
  ELSE IF get_key_or_attribute("id", struct) # None THEN get_key_or_attribute("id", struct)
  ELSE None

\* an encoder that does not validate the record against the explicit schema
from_struct_unvalidated(struct, schema, g) ==
  IF schema = NoSchema /\ struct.own = NoSchema
  THEN [err |-> "MissingSchema", graph |-> g]
  ELSE LET sch == IF schema # NoSchema THEN schema ELSE struct.own
           target == IF g = NoGraph THEN EmptyGraph ELSE g
       IN IF instance_id(struct) = None
          THEN [err |-> "ValueError: missing ID/id", graph |-> target]
          ELSE LET about == URIRef(instance_id(struct))
                   typed == GraphAdd(target, about, RDFtype, rdf_resource(sch))
               IN EmitFields(typed, about, struct, sch, 1)

\* an encoder that always writes into a new graph
from_struct_new_graph(struct, schema, g) ==
  IF schema # NoSchema /\ ~validate_schema(struct, schema)
  THEN [err |-> "ValidationError", graph |-> g]
  ELSE IF schema = NoSchema /\ struct.own = NoSchema
  THEN [err |-> "MissingSchema", graph |-> g]
  ELSE LET sch == IF schema # NoSchema THEN schema ELSE struct.own
       IN IF instance_id(struct) = None
          THEN [err |-> "ValueError: missing ID/id", graph |-> g]
          ELSE LET about == URIRef(instance_id(struct))
                   typed == GraphAdd(EmptyGraph, about, RDFtype, rdf_resource(sch))
               IN EmitFields(typed, about, struct, sch, 1)

\* from_struct(struct, schema=schema, graph=g): the error raised (Ok when none)
\* and the graph as the call leaves it
from_struct(struct, schema, g) ==
  IF schema # NoSchema /\ ~validate_schema(struct, schema)
  THEN [err |-> "ValidationError", graph |-> g]
  ELSE IF schema = NoSchema /\ struct.own = NoSchema
  THEN [err |-> "MissingSchema", graph |-> g]
  ELSE LET sch == IF schema # NoSchema THEN schema ELSE struct.own
           target == IF g = NoGraph THEN EmptyGraph ELSE g
       IN IF instance_id(struct) = None
          THEN [err |-> "ValueError: missing ID/id", graph |-> target]
          ELSE LET about == URIRef(instance_id(struct))
                   typed == GraphAdd(target, about, RDFtype, rdf_resource(sch))
               IN EmitFields(typed, about, struct, sch, 1)

(***************************************************************************)
(* Subject resolver.                                                       *)
(***************************************************************************)
\* a resolver without the type-membership check
get_subjects_unchecked(g, identifier, schema) ==
  IF identifier # NoIdent
  THEN LET ref == make_ref(identifier) IN
       IF ~HasSubject(g, ref)
       THEN [err |-> "ValueError: not in graph", ids |-> {}]
       ELSE [err |-> Ok, ids |-> {ref}]
  ELSE [err |-> Ok, ids |-> {URIRef(StrOf(item)) : item \in SubjectsOfType(g, schema)}]

\* _get_subjects(graph, identifier=identifier, schema=schema)
get_subjects(g, identifier, schema) ==
  IF identifier # NoIdent
  THEN LET ref == make_ref(identifier) IN
       IF ~HasSubject(g, ref)
       THEN [err |-> "ValueError: not in graph", ids |-> {}]
       ELSE IF schema # NoSchema /\ ~Contains(g, ref, RDFtype, rdf_resource(schema))
       THEN [err |-> "ValueError: not of type", ids |-> {}]
       ELSE [err |-> Ok, ids |-> {ref}]
  ELSE [err |-> Ok, ids |-> {URIRef(StrOf(item)) : item \in SubjectsOfType(g, schema)}]

(***************************************************************************)
(* Statement folder.  An attribute mapping is a function from keys to      *)
(* entries; an entry is one value (many FALSE) or a list (many TRUE).      *)
(***************************************************************************)
One(v) == [many |-> FALSE, vals |-> <<v>>]

Many(q) == [many |-> TRUE, vals |-> q]

\* a folder that turns a second value of a non-repeatable field into a list
update_attrs_coercing(pred, value, attrs, schema) ==
  IF pred = RDFtype THEN [err |-> Ok, attrs |-> attrs]
  ELSE IF schema # NoSchema /\ pred \notin DOMAIN ref_mapping(schema)
  THEN [err |-> "KeyError", attrs |-> attrs]
  ELSE LET key == IF schema = NoSchema THEN pred ELSE ref_mapping(schema)[pred] IN
       IF key \in DOMAIN attrs
       THEN [err |-> Ok, attrs |-> [attrs EXCEPT ![key] = Many(Append(@.vals, value))]]
       ELSE IF schema # NoSchema /\ Schemas[schema].attrs[key].repeat
       THEN [err |-> Ok, attrs |-> attrs @@ (key :> Many(<<value>>))]
       ELSE [err |-> Ok, attrs |-> attrs @@ (key :> One(value))]

\* a folder that drops the statements whose predicate the schema does not map
update_attrs_dropping(pred, value, attrs, schema) ==
  IF pred = RDFtype THEN [err |-> Ok, attrs |-> attrs]
  ELSE IF schema = NoSchema
  THEN IF pred \in DOMAIN attrs
       THEN [err |-> Ok, attrs |-> [attrs EXCEPT ![pred] = Many(Append(@.vals, value))]]
       ELSE [err |-> Ok, attrs |-> attrs @@ (pred :> One(value))]
  ELSE IF pred \notin DOMAIN ref_mapping(schema)
  THEN [err |-> Ok, attrs |-> attrs]
  ELSE LET pred_str == ref_mapping(schema)[pred] IN
       IF Schemas[schema].attrs[pred_str].repeat
       THEN IF pred_str \in DOMAIN attrs
            THEN [err |-> Ok, attrs |-> [attrs EXCEPT ![pred_str] = Many(Append(@.vals, value))]]
            ELSE [err |-> Ok, attrs |-> attrs @@ (pred_str :> Many(<<value>>))]
       ELSE IF pred_str \in DOMAIN attrs
            THEN [err |-> "AnnotationError", attrs |-> attrs]
            ELSE [err |-> Ok, attrs |-> attrs @@ (pred_str :> One(value))]

\* _update_attrs_from_stmt(pred, value, attrs, schema)
update_attrs_from_stmt(pred, value, attrs, schema) ==
  IF pred = RDFtype THEN [err |-> Ok, attrs |-> attrs]
  ELSE IF schema = NoSchema
  THEN IF pred \in DOMAIN attrs
       THEN [err |-> Ok, attrs |-> [attrs EXCEPT ![pred] = Many(Append(@.vals, value))]]
       ELSE [err |-> Ok, attrs |-> attrs @@ (pred :> One(value))]
  ELSE IF pred \notin DOMAIN ref_mapping(schema)
  THEN [err |-> "KeyError", attrs |-> attrs]
  ELSE LET pred_str == ref_mapping(schema)[pred] IN
       IF Schemas[schema].attrs[pred_str].repeat
       THEN IF pred_str \in DOMAIN attrs
            THEN [err |-> Ok, attrs |-> [attrs EXCEPT ![pred_str] = Many(Append(@.vals, value))]]
            ELSE [err |-> Ok, attrs |-> attrs @@ (pred_str :> Many(<<value>>))]
       ELSE IF pred_str \in DOMAIN attrs
            THEN [err |-> "AnnotationError", attrs |-> attrs]
            ELSE [err |-> Ok, attrs |-> attrs @@ (pred_str :> One(value))]

RECURSIVE FoldStmts(_, _, _)
\* the inner loop of to_builtin over one subject's statements
FoldStmts(stmts, attrs, schema) ==
  IF stmts = <<>> THEN [err |-> Ok, attrs |-> attrs]
  ELSE LET r == update_attrs_from_stmt(Head(stmts)[1], Head(stmts)[2], attrs, schema) IN
       IF r.err # Ok THEN r ELSE FoldStmts(Tail(stmts), r.attrs, schema)

(***************************************************************************)
(* Decoders and the subgraph extractor.                                    *)
(***************************************************************************)
\* the orders in which a set can be iterated
Orders(S) == {q \in [1..Cardinality(S) -> S] : \A i, j \in DOMAIN q : q[i] = q[j] => i = j}

\* enc_hook / msgspec.to_builtins on one folded value: the term's Python value
enc_hook(term) == term.val

\* msgspec.to_builtins on one attribute mapping ("id" is text already)
to_builtins(attrs) ==
  [k \in DOMAIN attrs |->
     IF k = "id" THEN attrs[k]
     ELSE [many |-> attrs[k].many,
           vals |-> [i \in DOMAIN attrs[k].vals |-> enc_hook(attrs[k].vals[i])]]]

RECURSIVE FoldSubjects(_, _, _, _)
\* the outer loop of to_builtin over id_pool, iterated in the given order
FoldSubjects(g, order, schema, result) ==
  IF order = <<>> THEN [err |-> Ok, out |-> result]
  ELSE LET item == Head(order)
           r == FoldStmts(PredicateObjects(g, item), "id" :> One(StrOf(item)), schema)
       IN IF r.err # Ok THEN [err |-> r.err, out |-> <<>>]
          ELSE FoldSubjects(g, Tail(order), schema, Append(result, r.attrs))

\* to_builtin(graph, identifier=identifier, schema=schema), with the order in which
\* the set id_pool happens to be iterated
to_builtin(g, identifier, schema, order) ==
  LET pool == get_subjects(g, identifier, schema) IN
  IF pool.err # Ok THEN [err |-> pool.err, out |-> <<>>]
  ELSE LET r == FoldSubjects(g, order, schema, <<>>) IN
       IF r.err # Ok THEN r
       ELSE [err |-> Ok, out |-> [i \in DOMAIN r.out |-> to_builtins(r.out[i])]]

\* msgspec.convert(mapping, type=model_cls, strict=False): the declared fields are
\* read from the mapping, a missing key takes the default None, other keys are ignored
convert(mapping, model_cls) ==
  Struct(None, mapping["id"].vals[1], model_cls,
         [f \in SchemaFields(model_cls) |->
            IF f \notin DOMAIN mapping THEN NoneVal
            ELSE IF mapping[f].many THEN Coll(mapping[f].vals)
            ELSE Text(mapping[f].vals[1])])

\* to_struct(graph, identifier, model_cls, schema); a model class is named by its
\* own schema
to_struct(g, identifier, model_cls, schema) ==
  LET sch == IF schema = NoSchema THEN model_cls ELSE schema
      pool == get_subjects(g, identifier, sch)
      data_kwargs == to_builtin(g, identifier, sch,
                                CHOOSE q \in Orders(pool.ids) : TRUE)
  IN IF data_kwargs.err # Ok THEN [err |-> data_kwargs.err, out |-> <<>>]
     ELSE [err |-> Ok, out |-> <<convert(data_kwargs.out[1], model_cls)>>]

RECURSIVE AddAll(_, _, _)
AddAll(sub, identifier, tuples) ==
  IF tuples = <<>> THEN sub
  ELSE AddAll(GraphAdd(sub, identifier, Head(tuples)[1], Head(tuples)[2]),
              identifier, Tail(tuples))

\* an extractor that re-emits the pairs of every subject under the identifier
sub_graph_all_pairs(g, identifier) ==
  LET ref == make_ref(identifier)
      other == CHOOSE n \in Nodes : n # ref
  IN IF ~HasSubject(g, ref)
     THEN [err |-> "ValueError: not present in graph", graph |-> NoGraph]
     ELSE [err |-> Ok,
           graph |-> AddAll(EmptyGraph, ref,
                            PredicateObjects(g, ref) \o PredicateObjects(g, other))]

\* sub_graph(graph, identifier)
sub_graph(g, identifier) ==
  LET ref == make_ref(identifier) IN
  IF ~HasSubject(g, ref)
  THEN [err |-> "ValueError: not present in graph", graph |-> NoGraph]
  ELSE [err |-> Ok, graph |-> AddAll(EmptyGraph, ref, PredicateObjects(g, ref))]

(***************************************************************************)
(* Inputs of the calls.                                                    *)
(***************************************************************************)
\* the values a record field may hold
FieldVals ==
  {NoneVal} \cup {Text(a) : a \in Atoms} \cup {Coll(q) : q \in SeqsUpTo(Atoms, MaxLen)}

\* the records: each exposes any subset of the field names
RecordsOf(IDs, ids, owns, vals) ==
  {Struct(ID, id, own, fields) :
     ID \in IDs, id \in ids, own \in owns,
     fields \in UNION {[D -> vals] : D \in SUBSET FieldNames}}

Records ==
  RecordsOf(Atoms \cup {None}, Atoms \cup {None}, SchemaNames \cup {NoSchema}, FieldVals)

\* the records encoded into a graph that several calls share
SharedVals == {NoneVal, Text("a"), Coll(<<"a", "b">>)}

SharedRecords == RecordsOf({None}, Atoms, {NoSchema}, SharedVals)

NoStruct == Struct(None, None, NoSchema, <<>>)

\* the schema a from_struct call works with
EffSchema(struct, schema) == IF schema # NoSchema THEN schema ELSE struct.own

\* what the last call was, its arguments and what it raised or returned
Call(op, prev, struct, schema, ident, dschema, err, out) ==
  [op |-> op, prev |-> prev, struct |-> struct, schema |-> schema,
   ident |-> ident, dschema |-> dschema, err |-> err, out |-> out]

NoCall == Call("init", "init", NoStruct, NoSchema, NoIdent, NoSchema, Ok, <<>>)

NoEnc == [s \in Nodes |-> <<>>]

(***************************************************************************)
(* SpecRT: a record is encoded into a fresh graph; the graph is then       *)
(* optionally cut down to the record's subgraph and decoded.               *)
(***************************************************************************)
InitRT ==
  /\ graph = EmptyGraph
  /\ last = NoCall
  /\ enc = NoEnc

\* g = from_struct(struct, schema=schema)
RTEncode(struct, schema) ==
  LET r == from_struct(struct, schema, NoGraph) IN
  /\ graph' = r.graph
  /\ last' = Call("from_struct", "init", struct, schema, NoIdent, NoSchema, r.err, <<>>)
  /\ UNCHANGED enc

\* g = sub_graph(g, identifier of the record)
RTSubGraph ==
  /\ last.op = "from_struct" /\ last.err = Ok
  /\ LET r == sub_graph(graph, instance_id(last.struct)) IN
     /\ graph' = r.graph
     /\ last' = [last EXCEPT !.op = "sub_graph", !.prev = last.op, !.err = r.err]
  /\ UNCHANGED enc

\* to_struct(g, identifier of the record, model_cls, schema)
RTToStruct(schema) ==
  /\ last.op \in {"from_struct", "sub_graph"} /\ last.err = Ok
  /\ LET sch == EffSchema(last.struct, last.schema)
         r == to_struct(graph, instance_id(last.struct), sch, schema)
     IN /\ schema \in {sch, NoSchema}
        /\ last' = [last EXCEPT !.op = "to_struct", !.prev = last.op,
                                !.ident = instance_id(last.struct), !.dschema = sch,
                                !.err = r.err, !.out = r.out]
  /\ UNCHANGED <<graph, enc>>

\* to_builtin(g, identifier=identifier, schema=schema)
RTToBuiltin(identifier, schema) ==
  /\ last.op \in {"from_struct", "sub_graph"} /\ last.err = Ok
  /\ identifier \in {instance_id(last.struct), NoIdent}
  /\ schema \in {EffSchema(last.struct, last.schema), NoSchema}
  /\ \E order \in Orders(get_subjects(graph, identifier, schema).ids) :
       LET r == to_builtin(graph, identifier, schema, order) IN
       last' = [last EXCEPT !.op = "to_builtin", !.prev = last.op,
                            !.ident = identifier, !.dschema = schema,
                            !.err = r.err, !.out = r.out]
  /\ UNCHANGED <<graph, enc>>

\* every run of the pipeline starts with the encode of one record
RTEncodeStep ==
  /\ last.op = "init"
  /\ \E struct \in Records, schema \in SchemaNames \cup {NoSchema} : RTEncode(struct, schema)

NextRT ==
  \/ RTEncodeStep
  \/ RTSubGraph
  \/ \E schema \in SchemaNames \cup {NoSchema} : RTToStruct(schema)
  \/ \E identifier \in Atoms \cup {NoIdent}, schema \in SchemaNames \cup {NoSchema} :
       RTToBuiltin(identifier, schema)

SpecRT == InitRT /\ [][NextRT]_vars

(***************************************************************************)
(* Properties of the encode / decode pipeline (checked under SpecRT).      *)
(***************************************************************************)
\* the schema of the record the pipeline carries
Sch == EffSchema(last.struct, last.schema)

Info(schema, f) == Schemas[schema].attrs[f]

Distinct(q) == \A i, j \in DOMAIN q : q[i] = q[j] => i = j

Range(q) == {q[i] : i \in DOMAIN q}

\* the record decoded from the subgraph of the graph the record was encoded into
RoundTripDone == last.op = "to_struct" /\ last.prev = "sub_graph"

\* null and the empty collection emit the same triples (none): they are not told apart
Norm(v) == IF v.items = <<>> THEN NoneVal ELSE v

\* the decoded record equals the encoded one on every declared field
SameOnFields ==
  /\ last.err = Ok
  /\ \A f \in SchemaFields(Sch) :
       Norm(last.out[1].fields[f]) = Norm(last.struct.fields[f])

\* non-repeatable fields hold null or a scalar, repeatable fields null or a collection
Shaped ==
  \A f \in SchemaFields(Sch) :
    IF Info(Sch, f).repeat THEN last.struct.fields[f].k \in {"none", "coll"}
    ELSE last.struct.fields[f].k \in {"none", "text"}

\* ... and no collection holds an element twice
ShapedDistinct ==
  /\ Shaped
  /\ \A f \in SchemaFields(Sch) : Distinct(last.struct.fields[f].items)

\* C1 as stated: every record (null, scalar, and collections in repeatable fields)
\* round-trips through encode, subGraph and toStruct, field by field and in order
\* (read with null and the empty collection taken as equal)
C1_RoundTrip_AsStated == RoundTripDone /\ Shaped => SameOnFields

\* C1 amended: the round trip returns the record on every declared field, the
\* elements of a repeatable field in emission order, provided no collection holds
\* an element twice (null and the empty collection taken as equal)
C1_RoundTrip == RoundTripDone /\ ShapedDistinct => SameOnFields

C1_Witness ==
  /\ RoundTripDone /\ ShapedDistinct /\ Sch = "Person"
  /\ last.struct.fields["friends"] = Coll(<<"b", "a">>)
  /\ last.struct.fields["name"] = Text("a")
  /\ last.out[1].fields["friends"] = Coll(<<"b", "a">>)

\* a decode with the schema the record was encoded with
DecodedSameSchema == last.op \in {"to_struct", "to_builtin"} /\ last.dschema = Sch

\* some non-repeatable field of the encoded record holds a collection longer than 1
LongInSingle ==
  \E f \in SchemaFields(Sch) :
    /\ ~Info(Sch, f).repeat
    /\ last.struct.fields[f].k = "coll"
    /\ Len(last.struct.fields[f].items) > 1

\* ... with at least two different elements
TwoInSingle ==
  \E f \in SchemaFields(Sch) :
    /\ ~Info(Sch, f).repeat
    /\ last.struct.fields[f].k = "coll"
    /\ Cardinality(Range(last.struct.fields[f].items)) > 1

\* C2 as stated: a non-repeatable field holding a collection of length > 1 makes the
\* decode with the same schema raise the cardinality error
C2_Cardinality_AsStated == DecodedSameSchema /\ LongInSingle => last.err = "AnnotationError"

\* C2 amended: a non-repeatable field holding a collection with at least two
\* different elements makes the decode with the same schema (to_builtin or
\* to_struct) raise the cardinality error; nothing is returned
C2_Cardinality ==
  DecodedSameSchema /\ TwoInSingle => last.err = "AnnotationError" /\ last.out = <<>>

C2_Witness ==
  /\ DecodedSameSchema /\ TwoInSingle /\ last.op = "to_builtin"
  /\ last.struct.fields["name"] = Coll(<<"a", "b">>)
  /\ last.err = "AnnotationError"

\* the object emitted for one element of a field
Obj(info, e) == IF info.range = IDRef THEN URIRef(e) ELSE Literal(e, info.range)

\* the triples the encoder is to emit for the record
ExpectedTriples ==
  LET about == URIRef(instance_id(last.struct)) IN
  {<<about, RDFtype, URIRef(Schemas[Sch].resource)>>} \cup
  UNION {{<<about, Info(Sch, f).ref, Obj(Info(Sch, f), last.struct.fields[f].items[i])>> :
            i \in DOMAIN last.struct.fields[f].items} : f \in SchemaFields(Sch)}

RECURSIVE CountItems(_, _, _)
\* the elements the named fields of a record hold, or the different ones among them
CountItems(struct, names, different) ==
  IF names = <<>> THEN 0
  ELSE (IF different THEN Cardinality(Range(struct.fields[Head(names)].items))
        ELSE Len(struct.fields[Head(names)].items))
       + CountItems(struct, Tail(names), different)

Encoded == last.op = "from_struct" /\ last.err = Ok

\* C7 as stated: the fresh graph holds the type triple and one triple per element
\* of each declared field, counted element by element
C7_Encode_AsStated ==
  Encoded =>
    /\ Triples(graph) = ExpectedTriples
    /\ Cardinality(Triples(graph)) =
         1 + CountItems(last.struct, Schemas[Sch].names, FALSE)

\* C7 amended: the fresh graph holds exactly the type triple and, per declared
\* field, one triple per different element of its value (none for null, one for a
\* text), a reference for a relation field and a datatyped literal otherwise
C7_Encode ==
  Encoded =>
    /\ Triples(graph) = ExpectedTriples
    /\ Cardinality(Triples(graph)) =
         1 + CountItems(last.struct, Schemas[Sch].names, TRUE)

C7_Witness ==
  /\ Encoded /\ Sch = "Person"
  /\ last.struct.fields["name"] = Text("a")
  /\ last.struct.fields["friends"] = Coll(<<"a", "b">>)
  /\ Cardinality(Triples(graph)) = 4
  /\ <<URIRef(instance_id(last.struct)), "ex:knows", URIRef("b")>> \in Triples(graph)
  /\ <<URIRef(instance_id(last.struct)), "ex:name", Literal("a", "xsd:string")>>
       \in Triples(graph)

\* C8: every triple an encode emits has the primary identifier "ID" as subject when
\* the record exposes it, the fallback "id" only when it does not; with neither, and
\* a schema resolved and validated, the encode raises the missing-identifier error
\* and emits nothing
C8_IdPrecedence ==
  last.op = "from_struct" =>
    /\ \A t \in Triples(graph) :
         t[1] = URIRef(IF last.struct.ID # None THEN last.struct.ID ELSE last.struct.id)
    /\ last.err = Ok => Triples(graph) # {}
    /\ last.struct.ID = None /\ last.struct.id = None =>
         /\ Triples(graph) = {}
         /\ last.err \in {"ValueError: missing ID/id", "ValidationError", "MissingSchema"}
         /\ (last.schema # NoSchema /\ validate_schema(last.struct, last.schema)) \/
            (last.schema = NoSchema /\ last.struct.own # NoSchema)
              => last.err = "ValueError: missing ID/id"

C8_Witness ==
  /\ Encoded
  /\ last.struct.ID = "a" /\ last.struct.id = "b"
  /\ HasSubject(graph, URIRef("a")) /\ ~HasSubject(graph, URIRef("b"))

C8_WitnessMissing ==
  /\ last.op = "from_struct"
  /\ last.struct.ID = None /\ last.struct.id = None
  /\ last.err = "ValueError: missing ID/id"

(***************************************************************************)
(* Spec: one graph that the caller keeps and passes to every call.         *)
(***************************************************************************)
Init ==
  /\ graph = EmptyGraph
  /\ last = NoCall
  /\ enc = NoEnc

\* from_struct(struct, schema=schema, graph=graph)
Encode(struct, schema) ==
  LET r == from_struct(struct, schema, graph) IN
  /\ Cardinality(Triples(r.graph)) <= MaxTriples
  /\ graph' = r.graph
  /\ last' = Call("from_struct", "shared", NoStruct, schema, instance_id(struct),
                  NoSchema, r.err, <<>>)
  /\ UNCHANGED enc

\* sub_graph(graph, identifier)
SubGraphCall(identifier) ==
  LET r == sub_graph(graph, identifier) IN
  /\ last' = Call("sub_graph", "shared", NoStruct, NoSchema, identifier, NoSchema,
                  r.err, r.graph)
  /\ UNCHANGED <<graph, enc>>

\* _get_subjects(graph, identifier=identifier, schema=schema)
ResolveCall(identifier, schema) ==
  LET r == get_subjects(graph, identifier, schema) IN
  /\ last' = Call("get_subjects", "shared", NoStruct, NoSchema, identifier, schema,
                  r.err, r.ids)
  /\ UNCHANGED <<graph, enc>>

\* to_builtin(graph, identifier=identifier, schema=schema)
ToBuiltinCall(identifier, schema) ==
  /\ \E order \in Orders(get_subjects(graph, identifier, schema).ids) :
       LET r == to_builtin(graph, identifier, schema, order) IN
       last' = Call("to_builtin", "shared", NoStruct, NoSchema, identifier, schema,
                    r.err, r.out)
  /\ UNCHANGED <<graph, enc>>

\* to_struct(graph, identifier, model_cls, schema)
ToStructCall(identifier, model_cls, schema) ==
  LET r == to_struct(graph, identifier, model_cls, schema) IN
  /\ schema \in {NoSchema, model_cls}
  /\ last' = Call("to_struct", "shared", NoStruct, NoSchema, identifier,
                  IF schema = NoSchema THEN model_cls ELSE schema, r.err, r.out)
  /\ UNCHANGED <<graph, enc>>

Next ==
  \/ \E struct \in SharedRecords, schema \in SchemaNames : Encode(struct, schema)
  \/ \E identifier \in Atoms : SubGraphCall(identifier)
  \/ \E identifier \in Atoms \cup {NoIdent}, schema \in SchemaNames \cup {NoSchema} :
       ResolveCall(identifier, schema)
  \/ \E identifier \in Atoms \cup {NoIdent}, schema \in SchemaNames \cup {NoSchema} :
       ToBuiltinCall(identifier, schema)
  \/ \E identifier \in Atoms, model_cls \in SchemaNames, schema \in SchemaNames \cup {NoSchema} :
       ToStructCall(identifier, model_cls, schema)

Spec == Init /\ [][Next]_vars

(***************************************************************************)
(* Properties of the calls on a shared graph (checked under Spec).         *)
(***************************************************************************)
\* the triples of the graph with the given subject
TriplesOf(g, s) == {t \in Triples(g) : t[1] = s}

TypeTriple(s, schema) == <<s, RDFtype, URIRef(Schemas[schema].resource)>>

\* C3: with an explicit identifier the resolver raises the not-found error when no
\* triple has it as subject (whatever the schema), else the type-mismatch error when
\* a schema is given and the type triple is absent, else returns exactly {identifier}
C3_Resolve ==
  last.op = "get_subjects" /\ last.ident # NoIdent =>
    LET ref == URIRef(last.ident) IN
    IF TriplesOf(graph, ref) = {}
    THEN last.err = "ValueError: not in graph"
    ELSE IF last.dschema # NoSchema /\ TypeTriple(ref, last.dschema) \notin Triples(graph)
    THEN last.err = "ValueError: not of type"
    ELSE last.err = Ok /\ last.out = {ref}

\* an identifier that is a subject, but typed by the other schema only
C3_Witness ==
  /\ last.op = "get_subjects" /\ last.ident = "a" /\ last.dschema = "Org"
  /\ TypeTriple(URIRef("a"), "Person") \in Triples(graph)
  /\ last.err = "ValueError: not of type"

C3_WitnessFound ==
  /\ last.op = "get_subjects" /\ last.ident = "a" /\ last.dschema = "Org"
  /\ TypeTriple(URIRef("a"), "Person") \in Triples(graph)
  /\ last.err = Ok /\ last.out = {URIRef("a")}

C3_WitnessNotFound ==
  /\ last.op = "get_subjects" /\ last.ident = "b" /\ last.dschema = "Person"
  /\ Triples(graph) # {}
  /\ last.err = "ValueError: not in graph"

\* the subjects a call without identifier is to act on
TypedSubjects(schema) ==
  {t[1] : t \in {u \in Triples(graph) :
                   /\ u[2] = RDFtype
                   /\ (schema = NoSchema \/ u[3] = URIRef(Schemas[schema].resource))}}

C4_WitnessEmpty ==
  /\ last.op = "to_builtin" /\ last.ident = NoIdent /\ last.dschema = "Org"
  /\ Triples(graph) # {} /\ TypedSubjects("Org") = {}
  /\ last.err = Ok /\ last.out = <<>>

\* a schema-aware decode whose subject resolution succeeded
SchemaDecode ==
  /\ last.op \in {"to_builtin", "to_struct"}
  /\ last.dschema # NoSchema
  /\ last.ident # NoIdent =>
       /\ TriplesOf(graph, URIRef(last.ident)) # {}
       /\ TypeTriple(URIRef(last.ident), last.dschema) \in Triples(graph)

\* the subjects it decodes
Pool == IF last.ident # NoIdent THEN {URIRef(last.ident)} ELSE TypedSubjects(last.dschema)

SchemaPreds(schema) == {Info(schema, f).ref : f \in SchemaFields(schema)}

\* the subject carries a triple whose predicate the schema does not map
Foreign(s) ==
  \E t \in TriplesOf(graph, s) : t[2] # RDFtype /\ t[2] \notin SchemaPreds(last.dschema)

\* the subject carries two triples of one non-repeatable field
TwoValues(s) ==
  \E t, u \in TriplesOf(graph, s) :
    /\ t # u /\ t[2] = u[2] /\ t[2] \in SchemaPreds(last.dschema)
    /\ ~Info(last.dschema, ref_mapping(last.dschema)[t[2]]).repeat

\* C5 as stated: a schema-aware decode of a subject carrying a foreign triple fails
\* with the unmapped-predicate error
C5_Unmapped_AsStated ==
  SchemaDecode /\ (\E s \in Pool : Foreign(s)) => last.err = "KeyError" /\ last.out = <<>>

\* C5 amended: a schema-aware decode of a subject carrying a foreign triple returns
\* nothing: it fails with the unmapped-predicate error, or with the cardinality error
\* when a decoded subject carries two values of a non-repeatable field
C5_Unmapped ==
  SchemaDecode /\ (\E s \in Pool : Foreign(s)) =>
    /\ last.out = <<>>
    /\ last.err \in {"KeyError", "AnnotationError"}
    /\ last.err = "AnnotationError" => \E s \in Pool : TwoValues(s)

C5_Witness ==
  /\ SchemaDecode /\ last.op = "to_struct" /\ last.ident = "a" /\ last.dschema = "Person"
  /\ Foreign(URIRef("a")) /\ ~TwoValues(URIRef("a"))
  /\ last.err = "KeyError"

\* what sub_graph returned for the graph it was given
C6_Result ==
  LET ref == URIRef(last.ident) IN
  IF TriplesOf(graph, ref) = {} THEN last.err # Ok
  ELSE last.err = Ok /\ Triples(last.out) = TriplesOf(graph, ref)

\* C6: sub_graph fails when the identifier is no subject of the graph; otherwise it
\* returns a graph holding exactly the triples of that subject, and in both cases
\* leaves the graph it was given unchanged
C6_SubGraph == [][last'.op = "sub_graph" => graph' = graph /\ C6_Result']_vars

C6_Witness ==
  /\ last.op = "sub_graph" /\ last.ident = "a" /\ last.err = Ok
  /\ TriplesOf(graph, URIRef("b")) # {}
  /\ Cardinality(Triples(last.out)) >= 2
  /\ Triples(last.out) = TriplesOf(graph, URIRef("a"))

C6_WitnessFail ==
  /\ last.op = "sub_graph" /\ last.ident = "a" /\ last.err # Ok
  /\ TriplesOf(graph, URIRef("b")) # {}

(***************************************************************************)
(* SpecFail: an encode into a graph the caller supplies, which earlier     *)
(* successful encodes have filled.                                         *)
(***************************************************************************)
\* the records of the observed encode: with or without identifiers, schema, fields
SuppliedRecords ==
  RecordsOf({None, "a"}, {None, "b"}, SchemaNames \cup {NoSchema}, SharedVals)

\* an earlier successful from_struct(struct, schema=schema, graph=graph)
Seed(struct, schema) ==
  LET r == from_struct(struct, schema, graph) IN
  /\ r.err = Ok
  /\ r.graph # graph
  /\ Cardinality(Triples(r.graph)) <= MaxTriples
  /\ graph' = r.graph
  /\ last' = Call("seed", "supplied", NoStruct, NoSchema, NoIdent, NoSchema, Ok, <<>>)
  /\ UNCHANGED enc

\* the observed from_struct(struct, schema=schema, graph=graph)
Supplied(struct, schema) ==
  LET r == from_struct(struct, schema, graph) IN
  /\ graph' = r.graph
  /\ last' = Call("from_struct", "supplied", struct, schema, NoIdent, NoSchema, r.err, <<>>)
  /\ UNCHANGED enc

\* the graph is filled as long as the observed encode has not been made
SeedStep ==
  /\ last.op \in {"init", "seed"}
  /\ \E struct \in SharedRecords, schema \in SchemaNames : Seed(struct, schema)

SuppliedStep ==
  /\ last.op \in {"init", "seed"}
  /\ \E struct \in SuppliedRecords, schema \in SchemaNames \cup {NoSchema} :
       Supplied(struct, schema)

NextFail == SeedStep \/ SuppliedStep

SpecFail == Init /\ [][NextFail]_vars

RECURSIVE EmittedBefore(_, _, _, _)
\* the triples of the declared fields up to the first one the record does not expose
EmittedBefore(struct, schema, about, i) ==
  IF i > Len(Schemas[schema].names) \/ Schemas[schema].names[i] \notin DOMAIN struct.fields
  THEN {}
  ELSE LET f == Schemas[schema].names[i] IN
       {<<about, Info(schema, f).ref, Obj(Info(schema, f), struct.fields[f].items[j])>> :
          j \in DOMAIN struct.fields[f].items}
       \cup EmittedBefore(struct, schema, about, i + 1)

\* what a failed encode leaves of the supplied graph (an action: graph is the graph
\* before the call, graph' the graph after it)
C9_Effect ==
  LET about == URIRef(instance_id(last'.struct))
      sch == EffSchema(last'.struct, last'.schema)
  IN /\ last'.err \in {"MissingSchema", "ValidationError", "ValueError: missing ID/id"}
          => graph' = graph
     /\ last'.schema # NoSchema /\ last'.err # Ok => graph' = graph
     /\ last'.err = "AttributeError: missing field"
          => Triples(graph') =
               Triples(graph) \cup {TypeTriple(about, sch)}
                              \cup EmittedBefore(last'.struct, sch, about, 1)

\* C9: an encode that fails before emission (no schema, validation, no identifier)
\* leaves the supplied graph as it was; one that fails on reading a declared field
\* the record does not expose leaves the type triple and the triples of the fields
\* emitted before it in the graph
C9_FailedEncode == [][last'.op = "from_struct" => C9_Effect]_vars

\* a failure in mid-emission, after the type triple and the name were emitted
C9_Witness ==
  /\ last.op = "from_struct" /\ last.err = "AttributeError: missing field"
  /\ last.struct.ID = "a" /\ DOMAIN last.struct.fields = {"name"}
  /\ last.struct.fields["name"] = Text("a")
  /\ TriplesOf(graph, URIRef("b")) # {}
  /\ TriplesOf(graph, URIRef("a")) =
       {TypeTriple(URIRef("a"), "Person"),
        <<URIRef("a"), "ex:name", Literal("a", "xsd:string")>>}

C9_WitnessBefore ==
  /\ last.op = "from_struct"
  /\ last.err \in {"MissingSchema", "ValidationError", "ValueError: missing ID/id"}
  /\ Triples(graph) # {}

(***************************************************************************)
(* SpecIso: successful encodes of records with different identifiers into  *)
(* one graph, in any order and with repeats, and decodes from that graph.  *)
(***************************************************************************)
IsoVals == {NoneVal, Text("a"), Coll(<<"b", "a">>)}

IsoRecords == RecordsOf({None}, Atoms, {NoSchema}, IsoVals)

\* from_struct(struct, schema=schema, graph=graph) of the one record of its identifier
IsoEncode(struct, schema) ==
  LET r == from_struct(struct, schema, graph)
      about == URIRef(instance_id(struct))
  IN /\ r.err = Ok
     /\ enc[about] \in {<<>>, <<[struct |-> struct, schema |-> schema]>>}
     /\ graph' = r.graph
     /\ enc' = [enc EXCEPT ![about] = <<[struct |-> struct, schema |-> schema]>>]
     /\ last' = Call("from_struct", "iso", NoStruct, schema, instance_id(struct),
                     NoSchema, r.err, <<>>)

\* to_struct(graph, identifier, model_cls) of an encoded record
IsoDecode(identifier) ==
  /\ enc[URIRef(identifier)] # <<>>
  /\ LET cls == enc[URIRef(identifier)][1].schema
         r == to_struct(graph, identifier, cls, NoSchema)
     IN last' = Call("to_struct", "iso", NoStruct, NoSchema, identifier, cls, r.err, r.out)
  /\ UNCHANGED <<graph, enc>>

NextIso ==
  \/ \E struct \in IsoRecords, schema \in SchemaNames : IsoEncode(struct, schema)
  \/ \E identifier \in Atoms : IsoDecode(identifier)

SpecIso == Init /\ [][NextIso]_vars

\* the graph a record produces when encoded alone
Alone(s) == from_struct(enc[s][1].struct, enc[s][1].schema, NoGraph).graph

\* C10: after successful encodes of records with pairwise different identifiers into
\* one graph, in any order and with repeats, the graph holds for each identifier
\* exactly what the record produces when encoded alone (so every encode added only
\* triples of its own identifier, kept the others, and a repeat added nothing), and
\* each record decodes from the shared graph as from its own graph
C10_Isolation ==
  /\ \A s \in Nodes : graph[s] = IF enc[s] = <<>> THEN <<>> ELSE Alone(s)[s]
  /\ Triples(graph) = UNION {Triples(Alone(s)) : s \in {n \in Nodes : enc[n] # <<>>}}
  /\ last.op = "to_struct" =>
       LET alone == to_struct(Alone(URIRef(last.ident)), last.ident, last.dschema, NoSchema)
       IN last.err = alone.err /\ last.out = alone.out

C10_Witness ==
  /\ last.op = "to_struct" /\ last.ident = "a" /\ last.err = Ok
  /\ enc[URIRef("a")] # <<>> /\ enc[URIRef("b")] # <<>>
  /\ enc[URIRef("a")][1].struct.fields["name"] = Text("a")
  /\ enc[URIRef("b")][1].struct.fields["name"] = NoneVal
  /\ last.out[1].fields["name"] = Text("a")

====
